---- MODULE Spec2Model ----
(***************************************************************************)
(* Athena SJT Generation Studio (src/app.py): the competency-batch         *)
(* generation pipeline.  Texts are TLA+ strings handled character by       *)
(* character (Len, SubSeq, \o).  A string literal of this language cannot  *)
(* hold a backquote, so the backquote of the markdown fence is written     *)
(* as the apostrophe: the fence "'''json" stands for three backquotes      *)
(* followed by json.                                                       *)
(***************************************************************************)
EXTENDS Integers, Sequences, FiniteSets, TLC

(***************************************************************************)
(* Python values.  Every value is a record tagged by t, and the payload    *)
(* field has a different name for every tag, so that two values of         *)
(* different kinds are unequal without their payloads being compared.      *)
(***************************************************************************)
PyNone == [t |-> "None"]
PyStr(s) == [t |-> "str", s |-> s]
PyNum(n) == [t |-> "num", n |-> n]
PyBool(b) == [t |-> "bool", b |-> b]
\* a list: its elements in order
PyList(l) == [t |-> "list", l |-> l]
\* a dict: its items <<key, value>> in insertion order, keys distinct
PyDict(d) == [t |-> "dict", d |-> d]

\* Python's truth value of an object (the test of `if parsed_data:`)
Truthy(v) ==
  CASE v.t = "None" -> FALSE
    [] v.t = "str" -> v.s # ""
    [] v.t = "num" -> v.n # 0
    [] v.t = "bool" -> v.b
    [] v.t = "list" -> v.l # <<>>
    [] v.t = "dict" -> v.d # <<>>

HasKey(v, k) == \E n \in 1..Len(v.d) : v.d[n][1] = k

\* dict.get(k, default) on a value known to be a dict
DictGet(v, k, default) ==
  IF HasKey(v, k)
    THEN v.d[CHOOSE n \in 1..Len(v.d) : v.d[n][1] = k][2]
    ELSE default

\* d[k] = x of a dict under construction: an existing key keeps its place
DictSet(d, k, x) ==
  IF \E n \in 1..Len(d) : d[n][1] = k
    THEN [n \in 1..Len(d) |-> IF d[n][1] = k THEN <<k, x>> ELSE d[n]]
    ELSE Append(d, <<k, x>>)

(***************************************************************************)
(* Characters and str methods.                                             *)
(***************************************************************************)
Char(s, n) == SubSeq(s, n, n)

\* the whitespace str.strip() removes and json skips, within ASCII text
IsSpace(c) == c \in {" ", "\n", "\r", "\t"}

IsDigit(c) == c \in {"0", "1", "2", "3", "4", "5", "6", "7", "8", "9"}

\* s[a:b] of Python written with 1-based inclusive positions a..b
Slice(s, a, b) == IF a > b \/ a > Len(s) THEN "" ELSE SubSeq(s, a, b)

RECURSIVE lstrip(_)
lstrip(s) ==
  IF s # "" /\ IsSpace(Char(s, 1)) THEN lstrip(Slice(s, 2, Len(s))) ELSE s

RECURSIVE rstrip(_)
rstrip(s) ==
  IF s # "" /\ IsSpace(Char(s, Len(s))) THEN rstrip(Slice(s, 1, Len(s) - 1)) ELSE s

strip(s) == rstrip(lstrip(s))

startswith(s, prefix) ==
  Len(s) >= Len(prefix) /\ SubSeq(s, 1, Len(prefix)) = prefix

\* the positions at which `old` occurs in s
Occurrences(s, old) ==
  {n \in 1..(Len(s) - Len(old) + 1) : SubSeq(s, n, n + Len(old) - 1) = old}

Contains(s, old) == Occurrences(s, old) # {}

Min(S) == CHOOSE x \in S : \A y \in S : x <= y

\* str.replace(old, new): every occurrence, left to right, without overlap
RECURSIVE replace(_, _, _)
replace(s, old, new) ==
  LET found == Occurrences(s, old)
  IN IF found = {} THEN s
     ELSE LET n == Min(found)
          IN Slice(s, 1, n - 1) \o new
               \o replace(Slice(s, n + Len(old), Len(s)), old, new)

(***************************************************************************)
(* json.loads on the JSON subset the replies below are written in:         *)
(* objects, arrays, strings without escapes, unsigned integers, true,      *)
(* false and null, with whitespace between tokens.  A parser's result is   *)
(* [ok, v, n]: v the value read and n the position after it; ok = FALSE is *)
(* json.JSONDecodeError.                                                   *)
(***************************************************************************)
Bad == [ok |-> FALSE, v |-> PyNone, n |-> 0]
Good(v, n) == [ok |-> TRUE, v |-> v, n |-> n]

RECURSIVE SkipWs(_, _)
SkipWs(s, n) == IF n <= Len(s) /\ IsSpace(Char(s, n)) THEN SkipWs(s, n + 1) ELSE n

\* the position of the quote closing a string whose content starts at n (0: none)
RECURSIVE StringEnd(_, _)
StringEnd(s, n) ==
  IF n > Len(s) \/ Char(s, n) \in {"\\", "\n", "\r", "\t"} THEN 0
  ELSE IF Char(s, n) = "\"" THEN n
  ELSE StringEnd(s, n + 1)

\* the position after the last digit of the run of digits starting at n
RECURSIVE DigitsEnd(_, _)
DigitsEnd(s, n) == IF n <= Len(s) /\ IsDigit(Char(s, n)) THEN DigitsEnd(s, n + 1) ELSE n

DigitValue(c) ==
  CHOOSE k \in 0..9 : Char("0123456789", k + 1) = c

RECURSIVE NumberValue(_)
NumberValue(s) ==
  IF s = "" THEN 0
  ELSE 10 * NumberValue(Slice(s, 1, Len(s) - 1)) + DigitValue(Char(s, Len(s)))

ParseString(s, n) ==
  LET e == StringEnd(s, n + 1)
  IN IF e = 0 THEN Bad ELSE Good(PyStr(Slice(s, n + 1, e - 1)), e + 1)

ParseLiteral(s, n, word, v) ==
  IF startswith(Slice(s, n, Len(s)), word) THEN Good(v, n + Len(word)) ELSE Bad

ParseNumber(s, n) ==
  LET e == IF Char(s, n) = "0" THEN n + 1 ELSE DigitsEnd(s, n)
  IN Good(PyNum(NumberValue(Slice(s, n, e - 1))), e)

RECURSIVE ParseValue(_, _)
RECURSIVE ParseMembers(_, _, _)
RECURSIVE ParseElements(_, _, _)

\* the members of an object from position n (after "{" or ","), d read so far
ParseMembers(s, n, d) ==
  LET k == SkipWs(s, n)
  IN IF k > Len(s) \/ Char(s, k) # "\"" THEN Bad
     ELSE LET key == ParseString(s, k)
          IN IF ~key.ok THEN Bad
             ELSE LET c == SkipWs(s, key.n)
                  IN IF c > Len(s) \/ Char(s, c) # ":" THEN Bad
                     ELSE LET val == ParseValue(s, SkipWs(s, c + 1))
                          IN IF ~val.ok THEN Bad
                             ELSE LET e == SkipWs(s, val.n)
                                      d2 == DictSet(d, key.v.s, val.v)
                                  IN IF e > Len(s) THEN Bad
                                     ELSE IF Char(s, e) = "}" THEN Good(PyDict(d2), e + 1)
                                     ELSE IF Char(s, e) = "," THEN ParseMembers(s, e + 1, d2)
                                     ELSE Bad

\* the elements of an array from position n (after "[" or ","), l read so far
ParseElements(s, n, l) ==
  LET val == ParseValue(s, SkipWs(s, n))
  IN IF ~val.ok THEN Bad
     ELSE LET e == SkipWs(s, val.n)
              l2 == Append(l, val.v)
          IN IF e > Len(s) THEN Bad
             ELSE IF Char(s, e) = "]" THEN Good(PyList(l2), e + 1)
             ELSE IF Char(s, e) = "," THEN ParseElements(s, e + 1, l2)
             ELSE Bad

ParseValue(s, n) ==
  IF n > Len(s) THEN Bad
  ELSE LET c == Char(s, n)
       IN CASE c = "{" ->
                 LET k == SkipWs(s, n + 1)
                 IN IF k <= Len(s) /\ Char(s, k) = "}" THEN Good(PyDict(<<>>), k + 1)
                    ELSE ParseMembers(s, n + 1, <<>>)
            [] c = "[" ->
                 LET k == SkipWs(s, n + 1)
                 IN IF k <= Len(s) /\ Char(s, k) = "]" THEN Good(PyList(<<>>), k + 1)
                    ELSE ParseElements(s, n + 1, <<>>)
            [] c = "\"" -> ParseString(s, n)
            [] c = "n" -> ParseLiteral(s, n, "null", PyNone)
            [] c = "t" -> ParseLiteral(s, n, "true", PyBool(TRUE))
            [] c = "f" -> ParseLiteral(s, n, "false", PyBool(FALSE))
            [] IsDigit(c) -> ParseNumber(s, n)
            [] OTHER -> Bad

\* json.loads(s): one value, whitespace around it, and nothing else
json_loads(s) ==
  LET r == ParseValue(s, SkipWs(s, 1))
  IN IF r.ok /\ SkipWs(s, r.n) = Len(s) + 1 THEN r ELSE Bad

(***************************************************************************)
(* Helper functions (src/app.py, lines 100-125).                           *)
(***************************************************************************)
Fence == "'''json"

\* lines 112-113: the text handed to json.loads
Unwrapped(text) ==
  IF startswith(strip(text), Fence)
    THEN Slice(strip(text), 8, Len(strip(text)) - 3)
    ELSE text

\* lines 115-116: json.JSONDecodeError is caught and a warning is shown
DecodeFails(text) == ~json_loads(Unwrapped(text)).ok

parse_gemini_response(text) ==
  IF DecodeFails(text) THEN PyNone ELSE json_loads(Unwrapped(text)).v

\* re.split(r'\r\n|\r|\n', s): the pieces between line breaks, in order
RECURSIVE SplitLines(_, _, _)
SplitLines(s, n, piece) ==
  IF n > Len(s) THEN <<piece>>
  ELSE IF n < Len(s) /\ SubSeq(s, n, n + 1) = "\r\n"
    THEN <<piece>> \o SplitLines(s, n + 2, "")
  ELSE IF Char(s, n) \in {"\r", "\n"}
    THEN <<piece>> \o SplitLines(s, n + 1, "")
  ELSE SplitLines(s, n + 1, piece \o Char(s, n))

RECURSIVE StripNonEmpty(_)
StripNonEmpty(pieces) ==
  IF pieces = <<>> THEN <<>>
  ELSE IF strip(Head(pieces)) # ""
    THEN <<strip(Head(pieces))>> \o StripNonEmpty(Tail(pieces))
  ELSE StripNonEmpty(Tail(pieces))

\* a cell of the sheet: a text, or NaN for an empty cell
NaN == [t |-> "NaN"]
IsStr(cell) == cell.t = "str"

parse_indicators(indicator_blob) ==
  IF ~IsStr(indicator_blob) THEN <<>>
  ELSE StripNonEmpty(SplitLines(indicator_blob.s, 1, ""))

(***************************************************************************)
(* Data preprocessing (lines 145-159).  A sheet is its set of column       *)
(* names and its rows; a row holds one cell per required column.           *)
(***************************************************************************)
required_columns == {"Competency Name", "Theme", "Indicators (PL1)"}

Max(S) == CHOOSE m \in S : \A y \in S : y <= m

\* Series.ffill(): an empty cell takes the last non-empty cell above it, if any
ffill(col) ==
  [n \in 1..Len(col) |->
     LET above == {m \in 1..n : IsStr(col[m])}
     IN IF above = {} THEN NaN ELSE col[Max(above)]]

\* lines 152-153
ForwardFilled(rows) ==
  LET names == ffill([n \in 1..Len(rows) |-> rows[n].CompetencyName])
      themes == ffill([n \in 1..Len(rows) |-> rows[n].Theme])
  IN [n \in 1..Len(rows) |->
        [CompetencyName |-> names[n], Theme |-> themes[n],
         Indicators |-> rows[n].Indicators]]

HasIndicators(row) == IsStr(row.Indicators)

\* line 156: dropna(subset=['Indicators (PL1)'])
DropNa(rows) == SelectSeq(rows, HasIndicators)

\* the order of str values under sort: by code point, within these characters
CodeOrder == " 0123456789ABCDEFGHIJKLMNOPQRSTUVWXYZabcdefghijklmnopqrstuvwxyz"
Ord(c) == CHOOSE n \in 1..Len(CodeOrder) : Char(CodeOrder, n) = c

RECURSIVE StrLess(_, _)
StrLess(a, b) ==
  IF a = "" THEN b # ""
  ELSE IF b = "" THEN FALSE
  ELSE IF Char(a, 1) = Char(b, 1)
    THEN StrLess(Slice(a, 2, Len(a)), Slice(b, 2, Len(b)))
  ELSE Ord(Char(a, 1)) < Ord(Char(b, 1))

KeyLess(k1, k2) == StrLess(k1[1], k2[1]) \/ (k1[1] = k2[1] /\ StrLess(k1[2], k2[2]))

\* groupby keeps the rows whose two keys are both present
HasKeys(row) == IsStr(row.CompetencyName) /\ IsStr(row.Theme)

GroupKey(row) == <<row.CompetencyName.s, row.Theme.s>>

\* the groups of groupby(['Competency Name', 'Theme']): its keys, sorted
RECURSIVE SortKeys(_)
SortKeys(keys) ==
  IF keys = {} THEN <<>>
  ELSE LET k == CHOOSE a \in keys : \A b \in keys \ {a} : KeyLess(a, b)
       IN <<k>> \o SortKeys(keys \ {k})

\* '\n'.join(cells)
RECURSIVE JoinLines(_)
JoinLines(cells) ==
  IF cells = <<>> THEN ""
  ELSE IF Len(cells) = 1 THEN cells[1].s
  ELSE cells[1].s \o "\n" \o JoinLines(Tail(cells))

\* line 159: one row per group, the group's indicator cells joined in row order
GroupJoin(rows) ==
  LET keyed == SelectSeq(rows, HasKeys)
      keys == SortKeys({GroupKey(keyed[n]) : n \in 1..Len(keyed)})
      IndicatorsOf(k) ==
        LET InGroup(row) == GroupKey(row) = k
            members == SelectSeq(keyed, InGroup)
        IN [n \in 1..Len(members) |-> members[n].Indicators]
  IN [g \in 1..Len(keys) |->
        [CompetencyName |-> keys[g][1], Theme |-> keys[g][2],
         Indicators |-> JoinLines(IndicatorsOf(keys[g]))]]

\* lines 152-159: df_competencies of the rows read from the sheet
Preprocess(rows) == GroupJoin(DropNa(ForwardFilled(rows)))

(***************************************************************************)
(* Prompt rendering (lines 191-200).  MASTER_PROMPT is the template of     *)
(* lines 11-94 with its prose left out: the competency_data block and the  *)
(* head of the output format, which hold every double-brace token of the   *)
(* template, in the template's order.                                      *)
(***************************************************************************)
MASTER_PROMPT ==
  "<competency_data>\n<name>{{COMPETENCY_NAME}}</name>\n"
    \o "<definition>{{COMPETENCY_DEFINITION}}</definition>\n<pl1_indicators>\n"
    \o "<indicator>{{INDICATOR_1}}</indicator>\n<indicator>{{INDICATOR_2}}</indicator>\n"
    \o "<indicator>{{INDICATOR_3}}</indicator>\n<indicator>{{INDICATOR_4}}</indicator>\n"
    \o "</pl1_indicators>\n</competency_data>\n"
    \o "{\n  \"competency_name\": \"{{COMPETENCY_NAME}}\",\n"
    \o "  \"sjt_indicator_mapping\": [\n    \"{{THE FIRST INDICATOR YOU CHOSE}}\",\n"
    \o "    \"{{THE SECOND INDICATOR YOU CHOSE}}\"\n  ],\n"

\* line 196: pl1_indicators + [''] * (4 - len(pl1_indicators))
\* (a list times a number below 1 is the empty list)
padded_indicators(pl1_indicators) ==
  IF Len(pl1_indicators) >= 4 THEN pl1_indicators
  ELSE pl1_indicators \o [n \in 1..(4 - Len(pl1_indicators)) |-> ""]

\* lines 192-200 without the replacement of line 200
RenderPromptThree(competency_name, competency_def, pl1_indicators) ==
  LET padded == padded_indicators(pl1_indicators)
      p1 == replace(MASTER_PROMPT, "{{COMPETENCY_NAME}}", competency_name)
      p2 == replace(p1, "{{COMPETENCY_DEFINITION}}", competency_def)
      p3 == replace(p2, "{{INDICATOR_1}}", padded[1])
      p4 == replace(p3, "{{INDICATOR_2}}", padded[2])
  IN replace(p4, "{{INDICATOR_3}}", padded[3])

\* lines 192-200
RenderPrompt(competency_name, competency_def, pl1_indicators) ==
  LET padded == padded_indicators(pl1_indicators)
      p1 == replace(MASTER_PROMPT, "{{COMPETENCY_NAME}}", competency_name)
      p2 == replace(p1, "{{COMPETENCY_DEFINITION}}", competency_def)
      p3 == replace(p2, "{{INDICATOR_1}}", padded[1])
      p4 == replace(p3, "{{INDICATOR_2}}", padded[2])
      p5 == replace(p4, "{{INDICATOR_3}}", padded[3])
  IN replace(p5, "{{INDICATOR_4}}", padded[4])

(***************************************************************************)
(* Flattening a parsed reply into a row (lines 206-226).  An exception     *)
(* raised here (AttributeError, IndexError, KeyError, TypeError) is caught *)
(* by line 229 like an error of the call itself.                           *)
(***************************************************************************)
\* v[n] of Python, n counted from 0, is defined on a list or str longer than n
CanIndex(v, n) ==
  \/ v.t = "list" /\ n < Len(v.l)
  \/ v.t = "str" /\ n < Len(v.s)

Index(v, n) == IF v.t = "list" THEN v.l[n + 1] ELSE PyStr(Char(v.s, n + 1))

\* what iterating a value yields: a list's elements, a str's characters, a dict's keys
Iterable(v) == v.t \in {"list", "str", "dict"}

Elements(v) ==
  CASE v.t = "list" -> v.l
    [] v.t = "str" -> [n \in 1..Len(v.s) |-> PyStr(Char(v.s, n))]
    [] v.t = "dict" -> [n \in 1..Len(v.d) |-> PyStr(v.d[n][1])]

Hashable(v) == v.t \notin {"list", "dict"}

\* line 218, and the default 99 of line 220
score_map(label) ==
  CASE label = PyStr("Positive High") -> 0
    [] label = PyStr("Positive Low") -> 1
    [] label = PyStr("Negative Low") -> 2
    [] label = PyStr("Negative High") -> 3
    [] OTHER -> 99

OptionKey(option) == score_map(DictGet(option, "score_level", PyNone))

\* sorted(options, key=...): a stable sort, equal keys keep their order
RECURSIVE SortedFrom(_, _)
SortedFrom(done, rest) ==
  IF rest = <<>> THEN done
  ELSE LET o == Head(rest)
           k == Cardinality({n \in 1..Len(done) : OptionKey(done[n]) <= OptionKey(o)})
       IN SortedFrom(SubSeq(done, 1, k) \o <<o>> \o SubSeq(done, k + 1, Len(done)),
                     Tail(rest))

sorted_options(options) == SortedFrom(<<>>, Elements(options))

Mapping(parsed_data) ==
  DictGet(parsed_data, "sjt_indicator_mapping", PyList(<<PyStr(""), PyStr("")>>))

Sjt(parsed_data) == DictGet(parsed_data, "sjt", PyDict(<<>>))

Options(parsed_data) == DictGet(Sjt(parsed_data), "options", PyList(<<>>))

\* lines 208-224 raise on a reply that is not shaped as the code reads it
FlattenRaises(parsed_data) ==
  \/ parsed_data.t # "dict"
  \/ ~CanIndex(Mapping(parsed_data), 0)
  \/ ~CanIndex(Mapping(parsed_data), 1)
  \/ Sjt(parsed_data).t # "dict"
  \/ ~Iterable(Options(parsed_data))
  \/ \E o \in {Elements(Options(parsed_data))[n] :
                 n \in 1..Len(Elements(Options(parsed_data)))} :
        \/ o.t # "dict"
        \/ ~Hashable(DictGet(o, "score_level", PyNone))

\* lines 208-224: flat_data of attempt j (counted from 0)
flat_data(parsed_data, j) ==
  LET sorted == sorted_options(Options(parsed_data))
  IN [Competency |-> DictGet(parsed_data, "competency_name", PyNone),
      SJT_Number |-> "SJT " \o ToString(j + 1),
      Indicator_Mapping_1 |-> Index(Mapping(parsed_data), 0),
      Indicator_Mapping_2 |-> Index(Mapping(parsed_data), 1),
      Situation |-> DictGet(Sjt(parsed_data), "situation", PyNone),
      Question |-> DictGet(Sjt(parsed_data), "question", PyNone),
      Rationale |-> DictGet(parsed_data, "validation_rationale", PyNone),
      Option |-> [k \in 1..Len(sorted) |->
                    [Text |-> DictGet(sorted[k], "option_text", PyNone),
                     Score_Level |-> DictGet(sorted[k], "score_level", PyNone)]]]

(***************************************************************************)
(* The sheets a run may be given, and what the generation service may     *)
(* answer.                                                                 *)
(***************************************************************************)
Row(name, theme, indicators) ==
  [CompetencyName |-> name, Theme |-> theme, Indicators |-> indicators]

Sheet(columns, rows) == [columns |-> columns, rows |-> rows]

\* one competency, its four indicator lines in one cell
OneCompetency == Sheet(required_columns, <<Row(PyStr("A"), PyStr("T"), PyStr("p\nq\nr\ns"))>>)

\* merged cells: name and theme stand on the first row of each competency only,
\* B (three indicators) before A (two), an empty row at the end
MergedCells ==
  Sheet(required_columns \cup {"Notes"},
        <<Row(PyStr("B"), PyStr("U"), PyStr("p")), Row(NaN, NaN, PyStr(" q \r\n")),
          Row(NaN, NaN, PyStr("r")), Row(PyStr("A"), PyStr("T"), PyStr("p\nq")),
          Row(NaN, NaN, NaN)>>)

\* A has one indicator, C none but blanks, B has two
FewIndicators ==
  Sheet(required_columns,
        <<Row(PyStr("C"), PyStr("T"), PyStr(" \n")), Row(PyStr("A"), PyStr("T"), PyStr("p")),
          Row(PyStr("B"), PyStr("U"), PyStr("p\nq"))>>)

\* one competency whose rows carry two themes, with two and with five
\* indicators; a first row without a name
TwoThemes ==
  Sheet(required_columns,
        <<Row(NaN, PyStr("T"), PyStr("o")), Row(PyStr("A"), PyStr("T"), PyStr("p\nq")),
          Row(NaN, PyStr("U"), PyStr("r\ns\nt\nu\nv"))>>)

\* the column 'Theme' is missing
MissingColumn ==
  Sheet({"Competency Name", "Indicators (PL1)"},
        <<Row(PyStr("A"), NaN, PyStr("p\nq"))>>)

\* no row has indicators
NoIndicators == Sheet(required_columns, <<Row(PyStr("A"), PyStr("T"), NaN)>>)

Sheets == {OneCompetency, MergedCells, FewIndicators, TwoThemes, MissingColumn, NoIndicators}

OptionText(text, level) ==
  "{\"option_text\": \"" \o text \o "\", \"score_level\": \"" \o level \o "\"}"

\* the payload the template asks for, about competency `name`
Payload(name, options) ==
  "{\"competency_name\": \"" \o name \o "\", \"sjt_indicator_mapping\": [\"p\", \"q\"], "
    \o "\"sjt\": {\"situation\": \"s\", \"question\": \"w\", \"options\": [" \o options
    \o "]}, \"validation_rationale\": \"r\"}"

\* a well-formed payload about A in the markdown fence
WrappedReply ==
  "'''json\n"
    \o Payload("A", OptionText("a", "Positive High") \o ", " \o OptionText("b", "Positive Low")
                      \o ", " \o OptionText("c", "Negative Low") \o ", "
                      \o OptionText("d", "Negative High"))
    \o "\n'''\n"

\* a well-formed bare payload about B, its options in another order
BareReply ==
  Payload("B", OptionText("c", "Negative Low") \o ", " \o OptionText("d", "Negative High")
                 \o ", " \o OptionText("a", "Positive High") \o ", "
                 \o OptionText("b", "Positive Low"))

\* no payload at all
ProseReply == "I cannot help with that."

\* a fenced payload cut off before its end
CutReply == "'''json\n{\"competency_name\": \"A\", \"sjt\": {\"situa"

\* an opening fence, a payload, and three more characters that are no fence
TrailingReply == "'''json\n{\"competency_name\": \"A\"} ok"

\* an object without any of the fields
EmptyObjectReply == "{}"

\* only some fields: no name, mapping, situation, question or rationale, and
\* options that lack a text or a label
PartialReply ==
  "{\"sjt\": {\"options\": [{\"option_text\": \"x\"}, {\"score_level\": \"Negative Low\"}, "
    \o OptionText("y", "Positive High") \o "]}}"

\* no sjt block
NoSjtReply ==
  "{\"competency_name\": \"A\", \"sjt_indicator_mapping\": [\"p\", \"q\"], "
    \o "\"validation_rationale\": \"r\"}"

\* a mapping of one indicator only
ShortMappingReply == "{\"sjt_indicator_mapping\": [\"p\"], \"sjt\": {}}"

\* range(5) of line 187
AttemptCount == 5

Replies ==
  {WrappedReply, BareReply, ProseReply, CutReply, TrailingReply, EmptyObjectReply,
   PartialReply, NoSjtReply, ShortMappingReply}

(***************************************************************************)
(* What the run computes from a record and from an answer, tabulated over  *)
(* the records of the sheets and over the answers: each entry is computed  *)
(* once.                                                                   *)
(***************************************************************************)
Records ==
  UNION {{Preprocess(sheet.rows)[n] : n \in 1..Len(Preprocess(sheet.rows))} :
           sheet \in Sheets}

IndicatorsOf == [r \in Records |-> parse_indicators(PyStr(r.Indicators))]

PromptOf == [r \in Records |-> RenderPrompt(r.CompetencyName, r.Theme, IndicatorsOf[r])]

DecodeFailed == [text \in Replies |-> DecodeFails(text)]

Parsed == [text \in Replies |-> parse_gemini_response(text)]

Raises == [text \in Replies |-> Truthy(Parsed[text]) /\ FlattenRaises(Parsed[text])]

FlatData ==
  [text \in {r \in Replies : Truthy(Parsed[r]) /\ ~Raises[r]} |->
     [k \in 0..(AttemptCount - 1) |-> flat_data(Parsed[text], k)]]

\* at most this many attempts of a run are answered by anything but WrappedReply
MaxDeviations == 2

(***************************************************************************)
(* The run (lines 142-257).                                                *)
(*   uploaded_file, secrets   the inputs of the run                        *)
(*   df_competencies          the records after preprocessing              *)
(*   i, j                     the record (from 1) and attempt (from 0)     *)
(*   all_results              the rows collected                           *)
(*   ui                       what st.error/warning/success have shown     *)
(*   service_log              the calls of generate_content: the record    *)
(*                            and attempt, the prompt sent, the answer     *)
(*   sleeps                   the number of time.sleep(1) executed         *)
(*   origin                   for each row, the record and attempt whose   *)
(*                            iteration appended it                        *)
(*   deviations               answers so far other than WrappedReply       *)
(***************************************************************************)
VARIABLES pc, uploaded_file, secrets, df_competencies, i, j, all_results, ui,
          service_log, sleeps, origin, deviations

vars == <<pc, uploaded_file, secrets, df_competencies, i, j, all_results, ui,
          service_log, sleeps, origin, deviations>>

ServiceError == [t |-> "ServiceError"]

Init ==
  /\ pc = "uploaded"
  /\ uploaded_file \in Sheets
  /\ secrets \in {{"GEMINI_API_KEY"}, {}}
  /\ df_competencies = <<>>
  /\ i = 0
  /\ j = 0
  /\ all_results = <<>>
  /\ ui = <<>>
  /\ service_log = <<>>
  /\ sleeps = 0
  /\ origin = <<>>
  /\ deviations = 0

\* lines 143-162: the schema check and the preprocessing
ReadFile ==
  /\ pc = "uploaded"
  /\ IF ~(required_columns \subseteq uploaded_file.columns)
       THEN /\ ui' = Append(ui, "error: File is missing required columns")
            /\ pc' = "done"
            /\ UNCHANGED df_competencies
       ELSE /\ df_competencies' = Preprocess(uploaded_file.rows)
            /\ ui' = Append(ui, "success: File uploaded and processed")
            /\ pc' = "button"
  /\ UNCHANGED <<uploaded_file, secrets, i, j, all_results, service_log, sleeps,
                 origin, deviations>>

\* lines 164-174 with a get_api_key that reports the missing key and returns
ClickGenerateWithoutStop ==
  /\ pc = "button"
  /\ IF df_competencies = <<>>
       THEN /\ ui' = Append(ui, "error: No valid competencies found")
            /\ pc' = "done"
            /\ UNCHANGED <<i, all_results>>
       ELSE /\ ui' = IF "GEMINI_API_KEY" \notin secrets
                       THEN Append(ui, "error: GEMINI_API_KEY not found")
                       ELSE ui
            /\ all_results' = <<>>
            /\ i' = 1
            /\ pc' = "record"
  /\ UNCHANGED <<uploaded_file, secrets, df_competencies, j, service_log, sleeps,
                 origin, deviations>>

\* lines 164-174, with get_api_key (lines 100-106)
ClickGenerate ==
  /\ pc = "button"
  /\ IF df_competencies = <<>>
       THEN /\ ui' = Append(ui, "error: No valid competencies found")
            /\ pc' = "done"
            /\ UNCHANGED <<i, all_results>>
       ELSE IF "GEMINI_API_KEY" \notin secrets
         THEN /\ ui' = Append(ui, "error: GEMINI_API_KEY not found")
              /\ pc' = "stopped"
              /\ UNCHANGED <<i, all_results>>
         ELSE /\ all_results' = <<>>
              /\ i' = 1
              /\ pc' = "record"
              /\ UNCHANGED ui
  /\ UNCHANGED <<uploaded_file, secrets, df_competencies, j, service_log, sleeps,
                 origin, deviations>>

\* line 181
pl1_indicators == IndicatorsOf[df_competencies[i]]

\* lines 177-185: the next record, skipped when it has fewer than 2 indicators
BeginRecord ==
  /\ pc = "record"
  /\ i <= Len(df_competencies)
  /\ IF Len(pl1_indicators) < 2
       THEN /\ ui' = Append(ui, "warning: Skipping '" \o df_competencies[i].CompetencyName
                                  \o "' as it has fewer than 2 indicators")
            /\ i' = i + 1
            /\ UNCHANGED <<pc, j>>
       ELSE /\ pc' = "attempt"
            /\ j' = 0
            /\ UNCHANGED <<ui, i>>
  /\ UNCHANGED <<uploaded_file, secrets, df_competencies, all_results, service_log,
                 sleeps, origin, deviations>>

\* lines 192-200
prompt == PromptOf[df_competencies[i]]

\* the loops with range(4) at line 187
NextIterationShort ==
  IF j + 1 < AttemptCount - 1
    THEN /\ j' = j + 1
         /\ UNCHANGED <<pc, i>>
    ELSE /\ pc' = "record"
         /\ i' = i + 1
         /\ j' = 0

\* the for loops of lines 177 and 187 step on
NextIteration ==
  IF j + 1 < AttemptCount
    THEN /\ j' = j + 1
         /\ UNCHANGED <<pc, i>>
    ELSE /\ pc' = "record"
         /\ i' = i + 1
         /\ j' = 0

Called(reply) ==
  service_log' = Append(service_log,
                        [record |-> i, attempt |-> j, prompt |-> prompt, reply |-> reply])

\* lines 229-231
ReportError ==
  ui' = Append(ui, "error: An API error occurred for '"
                     \o df_competencies[i].CompetencyName \o "'")

\* lines 187-231, generate_content answering `text`
AttemptReply(text) ==
  /\ pc = "attempt"
  /\ text = WrappedReply \/ deviations < MaxDeviations
  /\ deviations' = IF text = WrappedReply THEN deviations ELSE deviations + 1
  /\ Called(PyStr(text))
  /\ LET parsed_data == Parsed[text]
     IN IF ~Truthy(parsed_data)
          THEN /\ ui' = IF DecodeFailed[text]
                          THEN Append(ui, "warning: Failed to decode JSON from model response")
                          ELSE ui
               /\ sleeps' = sleeps + 1
               /\ UNCHANGED <<all_results, origin>>
          ELSE IF Raises[text]
            THEN /\ ReportError
                 /\ UNCHANGED <<all_results, origin, sleeps>>
            ELSE /\ all_results' = Append(all_results, FlatData[text][j])
                 /\ origin' = Append(origin, [record |-> i, attempt |-> j])
                 /\ sleeps' = sleeps + 1
                 /\ UNCHANGED ui
  /\ NextIteration
  /\ UNCHANGED <<uploaded_file, secrets, df_competencies>>

\* lines 187-231 without the try of line 202: the exception ends the run at line 255
AttemptServiceErrorAborts ==
  /\ pc = "attempt"
  /\ deviations < MaxDeviations
  /\ deviations' = deviations + 1
  /\ Called(ServiceError)
  /\ ui' = Append(ui, "error: An error occurred while reading the file")
  /\ pc' = "done"
  /\ UNCHANGED <<uploaded_file, secrets, df_competencies, i, j, all_results, origin,
                 sleeps>>

\* lines 187-231, generate_content raising
AttemptServiceError ==
  /\ pc = "attempt"
  /\ deviations < MaxDeviations
  /\ deviations' = deviations + 1
  /\ Called(ServiceError)
  /\ ReportError
  /\ NextIteration
  /\ UNCHANGED <<uploaded_file, secrets, df_competencies, all_results, origin, sleeps>>

\* lines 233-253: after the last record
Finish ==
  /\ pc = "record"
  /\ i > Len(df_competencies)
  /\ ui' = IF all_results # <<>>
             THEN Append(ui, "success: Generation finished successfully")
             ELSE Append(ui, "error: Generation finished, but no SJTs were successfully created")
  /\ pc' = "done"
  /\ UNCHANGED <<uploaded_file, secrets, df_competencies, i, j, all_results,
                 service_log, sleeps, origin, deviations>>

Next ==
  \/ ReadFile
  \/ ClickGenerate
  \/ BeginRecord
  \/ \E text \in Replies : AttemptReply(text)
  \/ AttemptServiceError
  \/ Finish

Spec == Init /\ [][Next]_vars

(***************************************************************************)
(* Properties.                                                             *)
(***************************************************************************)
Entries == 1..Len(service_log)

IsText(reply) == reply.t = "str"

\* the number of generate_content calls made for record k
CallsFor(k) == Cardinality({n \in Entries : service_log[n].record = k})

Eligible(k) == Len(IndicatorsOf[df_competencies[k]]) >= 2

\* the run passed the schema, the empty-table and the credential checks
Started == i >= 1

\* the rows appended by the iteration of record rec, attempt att
RowsFrom(rec, att) ==
  {k \in 1..Len(origin) : origin[k] = [record |-> rec, attempt |-> att]}

Shown(message) == \E m \in 1..Len(ui) : ui[m] = message

SkipWarning(k) ==
  "warning: Skipping '" \o df_competencies[k].CompetencyName
    \o "' as it has fewer than 2 indicators"

\* C1: in a run that passed the schema and credential checks, a record with
\* fewer than 2 parsed indicators gets no generation call (it is skipped with
\* a warning, and the records after it are still processed), every other
\* record gets exactly AttemptCount calls whatever the attempts' outcomes,
\* and at the end of the run the calls number AttemptCount times the
\* eligible records.
C1_CallsPerRecord ==
  Started =>
    /\ \A k \in 1..Len(df_competencies) :
         IF Eligible(k)
           THEN CallsFor(k) = (IF k < i THEN AttemptCount
                               ELSE IF k = i /\ pc = "attempt" THEN j ELSE 0)
           ELSE CallsFor(k) = 0 /\ (k < i => Shown(SkipWarning(k)))
    /\ pc = "done" =>
         /\ i = Len(df_competencies) + 1
         /\ Len(service_log) =
              AttemptCount * Cardinality({k \in 1..Len(df_competencies) : Eligible(k)})

\* a finished run in which a skipped record precedes an eligible one, one
\* call raised and one reply could not be decoded
C1_Witness ==
  /\ pc = "done"
  /\ Started
  /\ \E k1, k2 \in 1..Len(df_competencies) :
       k1 < k2 /\ ~Eligible(k1) /\ Eligible(k2) /\ CallsFor(k2) = AttemptCount
  /\ \E n \in Entries : service_log[n].reply = ServiceError
  /\ \E n \in Entries : IsText(service_log[n].reply) /\ DecodeFailed[service_log[n].reply.s]

\* a reply is a valid payload: JSON, or JSON between the fence "'''json" and
\* the closing "'''", with whitespace around
IsValidPayload(text) ==
  \/ json_loads(text).ok
  \/ LET t == strip(text)
     IN /\ Len(t) >= 10
        /\ startswith(t, Fence)
        /\ Slice(t, Len(t) - 2, Len(t)) = "'''"
        /\ json_loads(Slice(t, 8, Len(t) - 3)).ok

ValidPayload == [text \in Replies |-> IsValidPayload(text)]

DecodeWarning == "warning: Failed to decode JSON from model response"

WarningsShown == Cardinality({m \in 1..Len(ui) : ui[m] = DecodeWarning})

\* C2: for every reply text that is not a valid JSON payload,
\* parse_gemini_response returns None, the attempt appends no row, a
\* warning is shown, and the batch goes on with the next attempt.
C2_InvalidReplyYieldsNone ==
  /\ \A n \in Entries :
       LET e == service_log[n]
       IN (IsText(e.reply) /\ ~ValidPayload[e.reply.s]) =>
            /\ Parsed[e.reply.s] = PyNone
            /\ RowsFrom(e.record, e.attempt) = {}
  /\ WarningsShown =
       Cardinality({n \in Entries : IsText(service_log[n].reply)
                                      /\ ~ValidPayload[service_log[n].reply.s]})

\* the step of an attempt whose call raised
ServiceErrorStep ==
  /\ Len(service_log') = Len(service_log) + 1
  /\ service_log'[Len(service_log')].reply = ServiceError

\* C3: when the call of an attempt raises, no row is appended and the rows
\* collected stay as they are, the failure is reported, and the loop goes on
\* to the next attempt of the record or to the next record; a run that
\* started ends only after its last record.
C3_ServiceErrorForfeitsAttempt ==
  /\ [][ServiceErrorStep =>
          /\ all_results' = all_results
          /\ origin' = origin
          /\ ui' = Append(ui, "error: An API error occurred for '"
                                \o df_competencies[i].CompetencyName \o "'")
          /\ IF j + 1 < AttemptCount
               THEN pc' = "attempt" /\ i' = i /\ j' = j + 1
               ELSE pc' = "record" /\ i' = i + 1]_vars
  /\ []((Started /\ pc = "done") => i = Len(df_competencies) + 1)

\* a call raised between two attempts of the same record that appended rows
C3_Witness ==
  \E n \in Entries :
    /\ service_log[n].reply = ServiceError
    /\ \E a, b \in 1..Len(origin) :
         /\ origin[a].record = service_log[n].record
         /\ origin[b].record = service_log[n].record
         /\ origin[a].attempt < service_log[n].attempt
         /\ origin[b].attempt > service_log[n].attempt

\* C4: when a required column is missing, or the API key is absent, no
\* record is processed and no generation call is made.
C4_FatalBeforeAnyCall ==
  (~(required_columns \subseteq uploaded_file.columns) \/ "GEMINI_API_KEY" \notin secrets) =>
    /\ service_log = <<>>
    /\ all_results = <<>>
    /\ ~Started
    /\ pc \in {"uploaded", "button", "done", "stopped"}

\* the run stopped for the missing key although an eligible record was loaded
C4_Witness ==
  /\ pc = "stopped"
  /\ Shown("error: GEMINI_API_KEY not found")
  /\ \E k \in 1..Len(df_competencies) : Eligible(k)
  /\ service_log = <<>>

\* the call whose iteration appended row k, and the object decoded from its answer
CallOf(k) ==
  CHOOSE n \in Entries :
    service_log[n].record = origin[k].record /\ service_log[n].attempt = origin[k].attempt

DecodedOf(k) == Parsed[service_log[CallOf(k)].reply.s]

\* C5: every row carries the competency name of the record whose attempt
\* produced it and the label "SJT k" of that attempt, k counted from 1; so
\* a run over one eligible competency, every call answered by a
\* well-formed wrapped payload, ends with one row per attempt, all under
\* the record's name, labelled "SJT 1" to "SJT 5".
C5_RowCarriesRecordName ==
  /\ \A k \in 1..Len(all_results) :
       /\ all_results[k].Competency
            = PyStr(df_competencies[origin[k].record].CompetencyName)
       /\ all_results[k].SJT_Number = "SJT " \o ToString(origin[k].attempt + 1)
  /\ ( /\ pc = "done"
       /\ Started
       /\ Cardinality({k \in 1..Len(df_competencies) : Eligible(k)}) = 1
       /\ \A n \in Entries : service_log[n].reply = PyStr(WrappedReply) )
     => /\ Len(all_results) = AttemptCount
        /\ \A k \in 1..AttemptCount : all_results[k].SJT_Number = "SJT " \o ToString(k)

\* the competency name a row of the sheet stands under: its own, or the last
\* one above it
NameAt(rows, n) ==
  LET named == {m \in 1..n : IsStr(rows[m].CompetencyName)}
  IN IF named = {} THEN NaN ELSE rows[Max(named)].CompetencyName

\* the indicator lines of the rows standing under `name`, from row n on
RECURSIVE LinesUnder(_, _, _)
LinesUnder(rows, name, n) ==
  IF n > Len(rows) THEN <<>>
  ELSE (IF NameAt(rows, n) = PyStr(name) /\ IsStr(rows[n].Indicators)
          THEN parse_indicators(rows[n].Indicators) ELSE <<>>)
         \o LinesUnder(rows, name, n + 1)

\* the competencies of a sheet: the names its rows with indicators stand under
Competencies(rows) ==
  {NameAt(rows, n).s :
     n \in {m \in 1..Len(rows) : IsStr(rows[m].Indicators) /\ IsStr(NameAt(rows, m))}}

\* what the claim says of every sheet the run may read
OneRecordPerCompetency ==
  [sheet \in {s \in Sheets : required_columns \subseteq s.columns} |->
     LET df == Preprocess(sheet.rows)
     IN /\ {df[k].CompetencyName : k \in 1..Len(df)} = Competencies(sheet.rows)
        /\ \A k1, k2 \in 1..Len(df) :
             df[k1].CompetencyName = df[k2].CompetencyName => k1 = k2
        /\ \A k \in 1..Len(df) :
             IndicatorsOf[df[k]] = LinesUnder(sheet.rows, df[k].CompetencyName, 1)]

\* C6: the loader builds exactly one record per distinct competency: a row
\* without a name or theme takes the last ones above it, rows without
\* indicators are dropped, and a record's indicators are the indicator
\* lines of all the rows of its competency, in the order of the sheet.
C6_OneRecordPerCompetency ==
  (pc # "uploaded" /\ required_columns \subseteq uploaded_file.columns) =>
    /\ df_competencies = Preprocess(uploaded_file.rows)
    /\ OneRecordPerCompetency[uploaded_file]

\* the tokens lines 192-200 replace
Placeholders ==
  {"{{COMPETENCY_NAME}}", "{{COMPETENCY_DEFINITION}}", "{{INDICATOR_1}}",
   "{{INDICATOR_2}}", "{{INDICATOR_3}}", "{{INDICATOR_4}}"}

\* the tokens of the output format, which name what the reply is to hold
ReplyTokens == {"{{THE FIRST INDICATOR YOU CHOSE}}", "{{THE SECOND INDICATOR YOU CHOSE}}"}

\* the n-th indicator of a record, empty past its last one
IndicatorAt(r, n) == IF n <= Len(IndicatorsOf[r]) THEN IndicatorsOf[r][n] ELSE ""

\* where the record's values stand in a prompt p rendered for record r
FilledIn(r, p) ==
  /\ Contains(p, "<name>" \o r.CompetencyName \o "</name>")
  /\ Contains(p, "\"competency_name\": \"" \o r.CompetencyName \o "\"")
  /\ Contains(p, "<definition>" \o r.Theme \o "</definition>")
  /\ Contains(p, "<pl1_indicators>\n<indicator>" \o IndicatorAt(r, 1)
                   \o "</indicator>\n<indicator>" \o IndicatorAt(r, 2)
                   \o "</indicator>\n<indicator>" \o IndicatorAt(r, 3)
                   \o "</indicator>\n<indicator>" \o IndicatorAt(r, 4)
                   \o "</indicator>\n</pl1_indicators>")

\* what a rendered prompt holds, for every record and the prompt rendered for it
Rendering ==
  [x \in {<<r, PromptOf[r]>> : r \in Records} |->
     [left |-> {t \in Placeholders : Contains(x[2], t)},
      kept |-> {t \in ReplyTokens : Contains(x[2], t)},
      braces |-> Contains(x[2], "{{"),
      filled |-> FilledIn(x[1], x[2])]]

RenderingOf(n) ==
  Rendering[<<df_competencies[service_log[n].record], service_log[n].prompt>>]

\* C7 as stated: the prompt sent for an eligible record holds no
\* double-brace token of the template, every one being replaced by the
\* record's value, the indicator tokens past the record's indicators by the
\* empty string.
C7_NoTokenLeft ==
  \A n \in Entries :
    /\ Eligible(service_log[n].record)
    /\ ~RenderingOf(n).braces
    /\ RenderingOf(n).filled

\* C7, amended: the prompt sent for an eligible record holds none of the
\* six tokens COMPETENCY_NAME, COMPETENCY_DEFINITION and INDICATOR_1 to
\* INDICATOR_4: each stands replaced by the record's value, the indicator
\* tokens past the record's indicators by the empty string; the two tokens
\* of the output format that name the reply's indicators stay as they are.
C7_RecordTokensSubstituted ==
  \A n \in Entries :
    /\ Eligible(service_log[n].record)
    /\ RenderingOf(n).left = {}
    /\ RenderingOf(n).filled
    /\ RenderingOf(n).kept = ReplyTokens

\* prompts were sent for a record with two indicators and for one with five
C7_Witness ==
  /\ \E n \in Entries :
       /\ Len(IndicatorsOf[df_competencies[service_log[n].record]]) = 2
       /\ Contains(service_log[n].prompt,
                   "<indicator></indicator>\n<indicator></indicator>\n</pl1_indicators>")
  /\ \E n \in Entries : Len(IndicatorsOf[df_competencies[service_log[n].record]]) = 5

\* C8: time.sleep(1) has run after every generation call made so far,
\* whether the call answered or raised and whether or not the answer could
\* be parsed and flattened.
C8_PauseAfterEveryCall == sleeps = Len(service_log)

\* a decoded object of which sub-fields are absent, those present being
\* shaped as the template asks: a mapping of two entries, an sjt object,
\* a list of option objects
FieldsAbsentOnly(v) ==
  /\ v.t = "dict"
  /\ HasKey(v, "sjt_indicator_mapping") =>
       LET m == DictGet(v, "sjt_indicator_mapping", PyNone)
       IN m.t = "list" /\ Len(m.l) = 2
  /\ HasKey(v, "sjt") =>
       LET s == DictGet(v, "sjt", PyNone)
       IN /\ s.t = "dict"
          /\ HasKey(s, "options") =>
               LET o == DictGet(s, "options", PyNone)
               IN o.t = "list" /\ \A n \in 1..Len(o.l) : o.l[n].t = "dict"

AbsentFields == [text \in Replies |-> Parsed[text] # PyNone /\ FieldsAbsentOnly(Parsed[text])]

\* an absent field of the reply is None, or the empty string, in the row
RenderedEmpty(v, row) ==
  /\ ~HasKey(v, "competency_name") => row.Competency = PyNone
  /\ ~HasKey(v, "validation_rationale") => row.Rationale = PyNone
  /\ ~HasKey(v, "sjt_indicator_mapping") =>
       row.Indicator_Mapping_1 = PyStr("") /\ row.Indicator_Mapping_2 = PyStr("")
  /\ ~HasKey(Sjt(v), "situation") => row.Situation = PyNone
  /\ ~HasKey(Sjt(v), "question") => row.Question = PyNone
  /\ ~HasKey(Sjt(v), "options") => row.Option = <<>>

\* the errors the except clause of line 229 has reported
ApiErrors ==
  {m \in 1..Len(ui) :
     \E k \in 1..Len(df_competencies) :
       ui[m] = "error: An API error occurred for '"
                 \o df_competencies[k].CompetencyName \o "'"}

\* C9: for every decoded reply object, whichever of its sub-fields are
\* absent, flattening raises nothing (the only errors reported are those of
\* the calls that raised) and the attempt appends exactly one row, the
\* absent fields empty in it.
C9_AbsentFieldsStillOneRow ==
  /\ \A n \in Entries :
       LET e == service_log[n]
       IN (IsText(e.reply) /\ AbsentFields[e.reply.s]) =>
            /\ Cardinality(RowsFrom(e.record, e.attempt)) = 1
            /\ \A k \in RowsFrom(e.record, e.attempt) :
                 RenderedEmpty(Parsed[e.reply.s], all_results[k])
  /\ (\A n \in Entries :
        service_log[n].reply = ServiceError
          \/ (IsText(service_log[n].reply) /\ AbsentFields[service_log[n].reply.s]))
       => Cardinality(ApiErrors)
            = Cardinality({n \in Entries : service_log[n].reply = ServiceError})

\* the priority of a category label, the labels unknown or absent last
Priority(level) ==
  CASE level = PyStr("Positive High") -> 1
    [] level = PyStr("Positive Low") -> 2
    [] level = PyStr("Negative Low") -> 3
    [] level = PyStr("Negative High") -> 4
    [] OTHER -> 5

\* the options of priority p among a sequence of <<text, label>> pairs
OfPriority(pairs, p) ==
  LET Has(o) == Priority(o.Score_Level) = p
  IN SelectSeq(pairs, Has)

\* the options of a decoded reply in received order, as the row writes them
Received(v) ==
  LET options == Elements(Options(v))
  IN [n \in 1..Len(options) |->
        [Text |-> DictGet(options[n], "option_text", PyNone),
         Score_Level |-> DictGet(options[n], "score_level", PyNone)]]

\* C10: in every row the options stand in columns Option 1..n by
\* non-decreasing priority Positive High, Positive Low, Negative Low,
\* Negative High, the options with an unknown or absent label last and
\* options of one priority in received order; and column Option k holds
\* the same category in every row of the run.
C10_UniformOptionColumns ==
  /\ \A r \in 1..Len(all_results) :
       LET option == all_results[r].Option
       IN /\ \A k \in 1..(Len(option) - 1) :
               Priority(option[k].Score_Level) <= Priority(option[k + 1].Score_Level)
          /\ \A p \in 1..5 : OfPriority(option, p) = OfPriority(Received(DecodedOf(r)), p)
  /\ \A r1, r2 \in 1..Len(all_results) :
       \A k \in 1..Len(all_results[r1].Option) :
         k <= Len(all_results[r2].Option) =>
           all_results[r1].Option[k].Score_Level = all_results[r2].Option[k].Score_Level
====
